---- MODULE Spec2Model ----
(***************************************************************************)
(* A model of csv-to-cospend (src/main.py): CSV ingestion, the naming rule *)
(* engine, the interactive triage loop of `classify`, the JSON snapshots   *)
(* and `push`.                                                             *)
(*                                                                         *)
(* Python values are represented as follows:                               *)
(*   str            a sequence of one-character strings                    *)
(*   None | value   a sequence of length 0 (None) or 1 (<<value>>)         *)
(*   datetime.date  a record [y, m, d]                                     *)
(*   Payment        a record with the six fields of the dataclass          *)
(*   dict (JSON)    a record; "date" holds the str form of the date        *)
(***************************************************************************)
EXTENDS Integers, Sequences, FiniteSets, TLC

(***************************************************************************)
(* Bounds of the model.                                                    *)
(***************************************************************************)
\* longest CSV file (data rows) or snapshot given to classify
MaxRows == 2
\* longest rule list of config["naming"]["rule"] in the rule-engine checks
MaxRules == 2
\* longest snapshot given to push
MaxPush == 3

(***************************************************************************)
(* Python's None and optional values.                                      *)
(***************************************************************************)
None == <<>>

Some(v) == <<v>>

IsNone(o) == o = <<>>

Get(o) == o[1]

Reverse(s) == [i \in 1..Len(s) |-> s[Len(s) + 1 - i]]

(***************************************************************************)
(* str.lower and the `in` substring test on str.                           *)
(***************************************************************************)
LowerChar(c) ==
    CASE c = "A" -> "a"
      [] c = "B" -> "b"
      [] c = "C" -> "c"
      [] c = "D" -> "d"
      [] c = "E" -> "e"
      [] c = "F" -> "f"
      [] c = "R" -> "r"
      [] c = "S" -> "s"
      [] c = "W" -> "w"
      [] OTHER -> c

Lower(s) == [i \in 1..Len(s) |-> LowerChar(s[i])]

Contains(pat, s) ==
    \E i \in 0..(Len(s) - Len(pat)) : SubSeq(s, i + 1, i + Len(pat)) = pat

(***************************************************************************)
(* Dates: str(date), strptime(.., "%Y-%m-%d") and strptime(.., "%d.%m.%Y") *)
(***************************************************************************)
Digits == {"0", "1", "2", "3", "4", "5", "6", "7", "8", "9"}

DigitVal(c) ==
    CASE c = "0" -> 0 [] c = "1" -> 1 [] c = "2" -> 2 [] c = "3" -> 3
      [] c = "4" -> 4 [] c = "5" -> 5 [] c = "6" -> 6 [] c = "7" -> 7
      [] c = "8" -> 8 [] c = "9" -> 9

DigitChar(n) ==
    CASE n = 0 -> "0" [] n = 1 -> "1" [] n = 2 -> "2" [] n = 3 -> "3"
      [] n = 4 -> "4" [] n = 5 -> "5" [] n = 6 -> "6" [] n = 7 -> "7"
      [] n = 8 -> "8" [] n = 9 -> "9"

AllDigits(s) == \A i \in 1..Len(s) : s[i] \in Digits

RECURSIVE NatVal(_)
NatVal(s) ==
    IF s = <<>> THEN 0
    ELSE 10 * NatVal(SubSeq(s, 1, Len(s) - 1)) + DigitVal(s[Len(s)])

\* n written with exactly w digits, zero padded (n < 10^w)
RECURSIVE Pad(_, _)
Pad(n, w) ==
    IF w = 0 THEN <<>> ELSE Append(Pad(n \div 10, w - 1), DigitChar(n % 10))

IsLeap(y) == (y % 4 = 0 /\ y % 100 # 0) \/ y % 400 = 0

DaysIn(y, m) ==
    IF m = 2 THEN (IF IsLeap(y) THEN 29 ELSE 28)
    ELSE IF m \in {4, 6, 9, 11} THEN 30 ELSE 31

ValidDate(y, m, d) ==
    /\ y \in 1..9999
    /\ m \in 1..12
    /\ d \in 1..DaysIn(y, m)

\* the positions of separator sep in s
SepAt(s, sep) == {i \in 1..Len(s) : s[i] = sep}

\* the fields of s around its separators, or <<>> unless there are exactly
\* three fields
Fields3(s, sep) ==
    LET at == SepAt(s, sep) IN
    IF Cardinality(at) # 2 THEN <<>>
    ELSE LET i == CHOOSE a \in at : \A b \in at : a <= b
             j == CHOOSE a \in at : \A b \in at : b <= a
         IN  <<SubSeq(s, 1, i - 1), SubSeq(s, i + 1, j - 1),
               SubSeq(s, j + 1, Len(s))>>

\* %Y is exactly four digits, %m and %d one or two digits
DateOf(ys, ms, ds) ==
    IF /\ Len(ys) = 4 /\ AllDigits(ys)
       /\ Len(ms) \in 1..2 /\ AllDigits(ms)
       /\ Len(ds) \in 1..2 /\ AllDigits(ds)
       /\ ValidDate(NatVal(ys), NatVal(ms), NatVal(ds))
    THEN Some([y |-> NatVal(ys), m |-> NatVal(ms), d |-> NatVal(ds)])
    ELSE None

\* (a variant: the format "%Y-%d-%m")
ParseYDM(s) ==
    LET f == Fields3(s, "-") IN
    IF f = <<>> THEN None ELSE DateOf(f[1], f[3], f[2])

\* datetime.datetime.strptime(s, "%Y-%m-%d").date(); None stands for ValueError
ParseYMD(s) ==
    LET f == Fields3(s, "-") IN
    IF f = <<>> THEN None ELSE DateOf(f[1], f[2], f[3])

\* datetime.datetime.strptime(s, "%d.%m.%Y").date(); None stands for ValueError
ParseDMY(s) ==
    LET f == Fields3(s, ".") IN
    IF f = <<>> THEN None ELSE DateOf(f[3], f[2], f[1])

\* (a variant: day first)
DateStrDMY(dt) == Pad(dt.d, 2) \o <<"-">> \o Pad(dt.m, 2) \o <<"-">> \o Pad(dt.y, 4)

\* str(date): ISO 8601, YYYY-MM-DD
DateStr(dt) == Pad(dt.y, 4) \o <<"-">> \o Pad(dt.m, 2) \o <<"-">> \o Pad(dt.d, 2)

(***************************************************************************)
(* The amount of a CSV row: int(-(Decimal(s.replace(",", ".")) * 100))     *)
(***************************************************************************)
\* str.replace(",", "."): every comma becomes a period
ReplaceComma(s) == [i \in 1..Len(s) |-> IF s[i] = "," THEN "." ELSE s[i]]

RECURSIVE Pow10(_)
Pow10(n) == IF n = 0 THEN 1 ELSE 10 * Pow10(n - 1)

\* Decimal(s) for s of the form [sign] digits [. digits] with at least one
\* digit, as sign * num / 10^scale; None stands for decimal.InvalidOperation
DecimalOf(s) ==
    LET signed == s # <<>> /\ s[1] \in {"+", "-"}
        sign   == IF signed /\ s[1] = "-" THEN -1 ELSE 1
        body   == IF signed THEN SubSeq(s, 2, Len(s)) ELSE s
        dots   == SepAt(body, ".")
        dot    == IF dots = {} THEN Len(body) + 1 ELSE CHOOSE i \in dots : TRUE
        ip     == SubSeq(body, 1, dot - 1)
        fp     == SubSeq(body, dot + 1, Len(body))
    IN  IF /\ Cardinality(dots) <= 1
           /\ AllDigits(ip)
           /\ AllDigits(fp)
           /\ Len(ip) + Len(fp) >= 1
        THEN Some([sign |-> sign, num |-> NatVal(ip \o fp), scale |-> Len(fp)])
        ELSE None

\* (a variant: the sign not inverted)
CentsOfSameSign(d) == d.sign * ((d.num * 100) \div Pow10(d.scale))

\* int(-(d * 100)): exact product, negated, truncated toward zero by int()
CentsOf(d) == (0 - d.sign) * ((d.num * 100) \div Pow10(d.scale))

\* the amount expression of csv_to_payment; None stands for the exception
ParseAmount(s) ==
    LET d == DecimalOf(ReplaceComma(s)) IN
    IF IsNone(d) THEN None ELSE Some(CentsOf(Get(d)))

(***************************************************************************)
(* Payment, Payment.to_json, Payment.from_json                             *)
(***************************************************************************)
Payment(date, payee, payee_friendly, reference, amount, category) ==
    [date |-> date, payee |-> payee, payee_friendly |-> payee_friendly,
     reference |-> reference, amount |-> amount, category |-> category]

\* dataclasses.asdict with the date replaced by str(date)
to_json(p) ==
    [date |-> DateStr(p.date), payee |-> p.payee,
     payee_friendly |-> p.payee_friendly, reference |-> p.reference,
     amount |-> p.amount, category |-> p.category]

\* None stands for the ValueError of strptime
from_json(obj) ==
    LET dt == ParseYMD(obj.date) IN
    IF IsNone(dt) THEN None
    ELSE Some(Payment(Get(dt), obj.payee, obj.payee_friendly, obj.reference,
                      obj.amount, obj.category))

\* [Payment.from_json(x) for x in json.load(fh)]; None if any element raises
from_json_list(js) ==
    IF \E i \in 1..Len(js) : IsNone(from_json(js[i])) THEN None
    ELSE Some([i \in 1..Len(js) |-> Get(from_json(js[i]))])

\* [x.to_json() for x in items], the content persist dumps
to_json_list(ps) == [i \in 1..Len(ps) |-> to_json(ps[i])]

(***************************************************************************)
(* csv_to_payment                                                          *)
(***************************************************************************)
\* one row of the reader; None stands for the exception of either parse
RowToPayment(row) ==
    LET dt  == ParseDMY(row.date)
        amt == ParseAmount(row.amount)
    IN  IF IsNone(dt) \/ IsNone(amt) THEN None
        ELSE Some(Payment(Get(dt), row.payee, row.payee, row.reference,
                          Get(amt), None))

\* (a variant: a row that raises is left out)
csv_to_paymentSkipping(rows) ==
    LET good == SelectSeq(rows, LAMBDA row : ~IsNone(RowToPayment(row)))
    IN  Some([i \in 1..Len(good) |-> Get(RowToPayment(good[i]))])

\* the list of payments in file order; None if any row raises
csv_to_payment(rows) ==
    IF \E i \in 1..Len(rows) : IsNone(RowToPayment(rows[i])) THEN None
    ELSE Some([i \in 1..Len(rows) |-> Get(RowToPayment(rows[i]))])

(***************************************************************************)
(* simplify_payment: the naming rules of config["naming"]["rule"]          *)
(***************************************************************************)
Rule(pc_, rc_, name, category) ==
    [payee_contains |-> pc_, reference_contains |-> rc_,
     result |-> [name |-> name, category |-> category]]

\* (a variant: the name written to payee as well)
ReplacedWithPayee(p, rule) ==
    [p EXCEPT
       !.payee = IF IsNone(rule.result.name) THEN p.payee
                 ELSE Get(rule.result.name),
       !.payee_friendly = IF IsNone(rule.result.name) THEN p.payee
                          ELSE Get(rule.result.name),
       !.category = IF IsNone(rule.result.category) THEN p.category
                    ELSE rule.result.category]

\* dataclasses.replace(payment, payee_friendly=result.get("name", payee),
\*                     category=result.get("category", payment.category))
Replaced(p, rule) ==
    [p EXCEPT
       !.payee_friendly = IF IsNone(rule.result.name) THEN p.payee
                          ELSE Get(rule.result.name),
       !.category = IF IsNone(rule.result.category) THEN p.category
                    ELSE rule.result.category]

\* (a variant: the display name searched)
SearchedFriendly(p) == Lower(p.payee_friendly)

\* the text both branches search: payment.payee.lower()
Searched(p) == Lower(p.payee)

\* the condition of the payee_contains branch
PayeeBranch(rule, p) ==
    /\ ~IsNone(rule.payee_contains)
    /\ Contains(Lower(Get(rule.payee_contains)), Searched(p))

\* (a variant: the pattern looked for in the reference)
ReferenceBranchOnReference(rule, p) ==
    /\ ~IsNone(rule.reference_contains)
    /\ Contains(Lower(Get(rule.reference_contains)), Lower(p.reference))

\* the condition of the reference_contains branch (tested against payee)
ReferenceBranch(rule, p) ==
    /\ ~IsNone(rule.reference_contains)
    /\ Contains(Lower(Get(rule.reference_contains)), Searched(p))

RuleMatches(rule, p) == PayeeBranch(rule, p) \/ ReferenceBranch(rule, p)

\* the body of the for loop for one rule
ApplyRule(p, rule) ==
    LET p1 == IF PayeeBranch(rule, p) THEN Replaced(p, rule) ELSE p
    IN  IF ReferenceBranch(rule, p1) THEN Replaced(p1, rule) ELSE p1

RECURSIVE FoldRules(_, _)
FoldRules(p, rs) ==
    IF rs = <<>> THEN p ELSE FoldRules(ApplyRule(p, Head(rs)), Tail(rs))

\* (a variant: the loop left at the first rule that matches)
RECURSIVE FirstMatch(_, _)
FirstMatch(p, rs) ==
    IF rs = <<>> THEN p
    ELSE IF RuleMatches(Head(rs), p) THEN ApplyRule(p, Head(rs))
    ELSE FirstMatch(p, Tail(rs))

simplify_payment(p, rs) == FoldRules(p, rs)

\* simplify_payment returns its argument object itself, not a copy, exactly
\* when no branch of any rule ran dataclasses.replace
SameObject(p, rs) == \A i \in 1..Len(rs) : ~RuleMatches(rs[i], p)

(***************************************************************************)
(* Sample inputs: CSV rows, rule lists, what the external editor does.     *)
(***************************************************************************)
StrREWE == <<"R", "E", "W", "E">>

StrCafe == <<"C", "a", "f", "e">>

StrRewe == <<"R", "e", "w", "e">>

CsvRow(date, payee, reference, amount) ==
    [date |-> date, payee |-> payee, reference |-> reference, amount |-> amount]

RowA ==
    CsvRow(<<"0", "1", ".", "0", "3", ".", "2", "0", "2", "4">>, StrREWE,
           <<"r", "e", "f">>, <<"-", "1", "2", ",", "5", "0">>)

RowB ==
    CsvRow(<<"2", "9", ".", "2", ".", "2", "0", "2", "4">>, StrCafe,
           <<"c", "a", "f">>, <<"3", ",", "5">>)

\* 30 February: strptime raises
RowBadDate ==
    CsvRow(<<"3", "0", ".", "0", "2", ".", "2", "0", "2", "4">>, StrCafe,
           <<"c", "a", "f">>, <<"1", ",", "0", "0">>)

\* thousands separator: two periods after the replace, Decimal raises
RowBadAmount ==
    CsvRow(<<"0", "1", ".", "0", "3", ".", "2", "0", "2", "4">>, StrCafe,
           <<"c", "a", "f">>, <<"1", ".", "0", "0", "0", ",", "5", "0">>)

CsvRows == {RowA, RowB, RowBadDate, RowBadAmount}

RECURSIVE SeqsUpTo(_, _)
SeqsUpTo(S, n) ==
    IF n = 0 THEN {<<>>}
    ELSE LET shorter == SeqsUpTo(S, n - 1) IN
         shorter \cup {Append(q, x) : q \in shorter, x \in S}

RuleRewe == Rule(Some(<<"r", "e", "w">>), None, Some(StrRewe), Some("grocery"))

\* reference_contains only, and a result without a name
RuleCaf == Rule(None, Some(<<"C", "A", "F">>), None, Some("food"))

TriageRuleLists == {<<RuleRewe>>, <<RuleCaf, RuleRewe>>}

\* what happens to the temporary file while os.system runs $EDITOR:
\* status "failed" is a missing editor or a nonzero exit
EditorRuns ==
    {[status |-> "failed", edit |-> "none"]} \cup
    {[status |-> "ok", edit |-> e] :
        e \in {"none", "category", "payee", "date", "garbage"}}

\* the content of the temporary file after the editor; None is a file that
\* json.load cannot parse
Edited(js, edit) ==
    CASE edit = "none"     -> Some(js)
      [] edit = "category" -> Some([js EXCEPT !.category = Some("grocery")])
      [] edit = "payee"    -> Some([js EXCEPT !.payee = StrRewe])
      [] edit = "date"     -> Some([js EXCEPT !.date = <<"s", "o", "o", "n">>])
      [] edit = "garbage"  -> None

\* the keys read by the category menu of command c
CategoryKeys == {"g", "s", "x", "z"}

\* categories.get(key)
categories(key) ==
    CASE key = "g" -> Some("grocery")
      [] key = "s" -> Some("shopping")
      [] OTHER -> None

BucketNames == {"approved", "second_look", "ignore"}

\* no snapshot file written
NoFiles == [n \in {} |-> <<>>]

\* Snapshot records an earlier classify run can have written: one with the
\* friendly name of a rule and a category chosen with c, one with a category
\* chosen with c; and one whose date was damaged by hand.
PayA == Get(RowToPayment(RowA))

PayB == Get(RowToPayment(RowB))

SnapAShopping ==
    to_json([PayA EXCEPT !.payee_friendly = StrRewe,
                         !.category = Some("shopping")])

SnapBGrocery == to_json([PayB EXCEPT !.category = Some("grocery")])

SnapBadDate == [to_json(PayA) EXCEPT !.date = <<"s", "o", "o", "n">>]

SnapshotRecords == {SnapAShopping, SnapBGrocery, SnapBadDate}

(***************************************************************************)
(* State.                                                                  *)
(*                                                                         *)
(* Every list element is an entry [pos, p]: p is the Payment, pos records  *)
(* which element of `payments` (the argument of classify_payments) the     *)
(* object was made from. pos is bookkeeping of the model; the program      *)
(* neither reads nor writes it.                                            *)
(***************************************************************************)
VARIABLES
    rules,        \* config["naming"]["rule"]
    source,       \* the option given to classify: "csv", "snapshot", "none"
    csv,          \* the data rows of the file at csv_path
    loaded,       \* the JSON list of the file at continue_with
    payments,     \* classify_payments: the argument
    payments_src, \* the place in the file of the record each payment is from
    items,        \* classify_payments: list(reversed(payments))
    idx,          \* classify_payments: the loop index
    payment,      \* classify_payments: the current payment, None outside
    aliased,      \* payment is the very object items[idx]
    entered,      \* classify_payments: the last command read
    exit_loop,
    approved,
    second_look,
    ignore,
    pc,           \* "start", "input", "done", "crashed"
    written,      \* the snapshot files persisted by this invocation
    decisions,    \* the terminal commands of this run, in order
    push_json,    \* push: the JSON list of the file at json_path
    push_pc,      \* push: "idle", "start", "posting", "done", "crashed"
    push_i,       \* push: the records handed to create_bill so far
    posted,       \* push: the submissions attempted, with their outcomes
    results       \* rule-engine checks: r, simplify(r), simplify(simplify(r))

input_vars == <<rules, source, csv, loaded>>

run_vars ==
    <<payments, payments_src, items, idx, payment, aliased, entered,
      exit_loop, approved, second_look, ignore, written, decisions>>

push_vars == <<push_json, push_pc, push_i, posted>>

vars == <<input_vars, run_vars, pc, push_vars, results>>

Entry(pos, p) == [pos |-> pos, p |-> p]

Tagged(ps) == [i \in 1..Len(ps) |-> Entry(i, ps[i])]

Values(es) == [i \in 1..Len(es) |-> es[i].p]

Positions(es) == [i \in 1..Len(es) |-> es[i].pos]

\* the current payment
cur == Get(payment)

(***************************************************************************)
(* classify and classify_payments.                                         *)
(*                                                                         *)
(* One action is one run of the program from a point where it blocks (the  *)
(* start, or input() at the command prompt) to the next such point or to   *)
(* its end; the editor of command e runs inside the action of e.           *)
(***************************************************************************)
\* (a variant: the reversal forgotten)
ItemsOfUnreversed(ps) == ps

\* items = list(reversed(payments))
ItemsOf(ps) == Reverse(ps)

\* (a variant: the load-time reversal forgotten)
LoadedPaymentsUnreversed(decoded) == decoded

\* payments = list(reversed([Payment.from_json(x) for x in json.load(fh)]))
LoadedPayments(decoded) == Reverse(decoded)

\* (a variant: items[idx+1:], the current record left out)
RemainingAfterCurrent(its, i) == SubSeq(its, i + 2, Len(its))

\* (a variant: items[:], the index forgotten)
RemainingAll(its, i) == its

\* items[idx:]
Remaining(its, i) == SubSeq(its, i + 1, Len(its))

\* the three persist calls of classify
Persisted(ap, sl, ig) ==
    [n \in BucketNames |->
        CASE n = "approved"    -> to_json_list(Values(ap))
          [] n = "second_look" -> to_json_list(Values(sl))
          [] n = "ignore"      -> to_json_list(Values(ig))]

Decision(cmd, shown, run) ==
    [cmd |-> cmd, shown |-> shown, status |-> run.status, edit |-> run.edit]

NoEditor == [status |-> "none", edit |-> "none"]

\* no classify_payments frame: before the call, and after an exception
NoRun ==
    /\ payments = <<>>
    /\ payments_src = <<>>
    /\ items = <<>>
    /\ idx = 0
    /\ payment = None
    /\ aliased = FALSE
    /\ entered = ""
    /\ exit_loop = FALSE
    /\ approved = <<>>
    /\ second_look = <<>>
    /\ ignore = <<>>
    /\ written = NoFiles
    /\ decisions = <<>>

\* an uncaught exception ends the process: its frames are gone, and nothing
\* was persisted
Crash ==
    /\ pc' = "crashed"
    /\ payments' = <<>>
    /\ payments_src' = <<>>
    /\ items' = <<>>
    /\ idx' = 0
    /\ payment' = None
    /\ aliased' = FALSE
    /\ entered' = ""
    /\ exit_loop' = FALSE
    /\ approved' = <<>>
    /\ second_look' = <<>>
    /\ ignore' = <<>>
    /\ written' = NoFiles
    /\ decisions' = <<>>

\* The for loop from the top of iteration i with the buckets ap, sl, ig: it
\* blocks at the prompt of record i, or ends, and classify persists.
Present(i, quit, ap, sl, ig) ==
    /\ exit_loop' = quit
    /\ approved' = ap
    /\ second_look' = sl
    /\ ignore' = ig
    /\ idx' = i
    /\ IF i < Len(items') /\ ~quit
       THEN /\ payment' = Some(Entry(items'[i + 1].pos,
                                     simplify_payment(items'[i + 1].p, rules)))
            /\ aliased' = SameObject(items'[i + 1].p, rules)
            /\ pc' = "input"
            /\ written' = NoFiles
       ELSE /\ payment' = None
            /\ aliased' = FALSE
            /\ pc' = "done"
            /\ written' = Persisted(ap, sl, ig)

\* classify_payments(ps) up to its first prompt
Begin(ps) ==
    /\ payments' = ps
    /\ items' = ItemsOf(ps)
    /\ entered' = ""
    /\ decisions' = <<>>
    /\ Present(0, FALSE, <<>>, <<>>, <<>>)

\* classify --csv-path
ClassifyCsv ==
    /\ pc = "start"
    /\ source = "csv"
    /\ LET ps == csv_to_payment(csv) IN
       IF IsNone(ps) THEN Crash
       ELSE /\ Begin(Tagged(Get(ps)))
            /\ payments_src' = [i \in 1..Len(Get(ps)) |-> i]
    /\ UNCHANGED <<input_vars, push_vars, results>>

\* classify --continue-with
ClassifyContinue ==
    /\ pc = "start"
    /\ source = "snapshot"
    /\ LET decoded == from_json_list(loaded) IN
       IF IsNone(decoded) THEN Crash
       ELSE LET ps == LoadedPayments(Tagged(Get(decoded))) IN
            /\ Begin(Tagged(Values(ps)))
            /\ payments_src' = Positions(ps)
    /\ UNCHANGED <<input_vars, push_vars, results>>

\* classify with neither option: `payments` is unbound at line 179
ClassifyNothing ==
    /\ pc = "start"
    /\ source = "none"
    /\ Crash
    /\ UNCHANGED <<input_vars, push_vars, results>>

\* what a terminal command leaves alone
TerminalFrame ==
    UNCHANGED <<input_vars, payments, payments_src, items, push_vars, results>>

\* entered == "a"
EnterA ==
    /\ pc = "input"
    /\ TerminalFrame
    /\ entered' = "a"
    /\ Present(idx + 1, FALSE, Append(approved, cur), second_look, ignore)
    /\ decisions' = Append(decisions, Decision("a", cur, NoEditor))

\* (a variant: the inner loop left after the category menu)
EnterCAdvancing(key) ==
    /\ pc = "input"
    /\ TerminalFrame
    /\ entered' = "c"
    /\ Present(idx + 1, FALSE, approved, second_look, ignore)
    /\ decisions' = decisions

\* entered == "c", and the key read by the category menu
EnterC(key) ==
    /\ pc = "input"
    /\ entered' = "c"
    /\ payment' = Some([cur EXCEPT !.p.category = categories(key)])
    /\ items' = IF aliased
                THEN [items EXCEPT ![idx + 1].p.category = categories(key)]
                ELSE items
    /\ UNCHANGED <<input_vars, payments, payments_src, idx, aliased, exit_loop,
                   approved, second_look, ignore, pc, written, decisions,
                   push_vars, results>>

\* entered == "e", with what the editor does
EnterE(run) ==
    /\ pc = "input"
    /\ UNCHANGED <<input_vars, push_vars, results>>
    /\ LET file == Edited(to_json(cur.p), run.edit)
           back == IF IsNone(file) THEN None ELSE from_json(Get(file))
       IN  IF IsNone(back) THEN Crash
           ELSE /\ UNCHANGED <<payments, payments_src, items>>
                /\ entered' = "e"
                /\ Present(idx + 1, FALSE,
                           Append(approved, Entry(cur.pos, Get(back))),
                           second_look, ignore)
                /\ decisions' = Append(decisions, Decision("e", cur, run))

\* entered == "j"
EnterJ ==
    /\ pc = "input"
    /\ TerminalFrame
    /\ entered' = "j"
    /\ Present(idx + 1, FALSE, approved, Append(second_look, cur), ignore)
    /\ decisions' = Append(decisions, Decision("j", cur, NoEditor))

\* entered == "x"
EnterX ==
    /\ pc = "input"
    /\ TerminalFrame
    /\ entered' = "x"
    /\ Present(idx + 1, FALSE, approved, second_look, Append(ignore, cur))
    /\ decisions' = Append(decisions, Decision("x", cur, NoEditor))

\* entered == "q"
EnterQ ==
    /\ pc = "input"
    /\ TerminalFrame
    /\ entered' = "q"
    /\ Present(idx + 1, TRUE, approved,
               second_look \o Remaining(items, idx), ignore)
    /\ decisions' = Append(decisions, Decision("q", cur, NoEditor))

\* any other input: the menu is printed again
EnterOther ==
    /\ pc = "input"
    /\ entered' = "z"
    /\ UNCHANGED <<input_vars, payments, payments_src, items, idx, payment,
                   aliased, exit_loop, approved, second_look, ignore, pc,
                   written, decisions, push_vars, results>>

PushIdle ==
    /\ push_json = <<>>
    /\ push_pc = "idle"
    /\ push_i = 0
    /\ posted = <<>>

Init ==
    /\ rules \in TriageRuleLists
    /\ source \in {"csv", "snapshot", "none"}
    /\ csv \in IF source = "csv" THEN SeqsUpTo(CsvRows, MaxRows) ELSE {<<>>}
    /\ loaded \in IF source = "snapshot"
                  THEN SeqsUpTo(SnapshotRecords, MaxRows) ELSE {<<>>}
    /\ NoRun
    /\ pc = "start"
    /\ PushIdle
    /\ results = <<>>

Next ==
    \/ ClassifyCsv
    \/ ClassifyContinue
    \/ ClassifyNothing
    \/ EnterA
    \/ \E key \in CategoryKeys : EnterC(key)
    \/ \E run \in EditorRuns : EnterE(run)
    \/ EnterJ
    \/ EnterX
    \/ EnterQ
    \/ EnterOther

Spec == Init /\ [][Next]_vars

\* a terminal command
EnterTerminal ==
    \/ EnterA
    \/ \E run \in EditorRuns : EnterE(run)
    \/ EnterJ
    \/ EnterX
    \/ EnterQ

\* At every prompt the operator comes to a terminal command after finitely
\* many other inputs.
SpecFair ==
    /\ Init
    /\ [][Next]_vars
    /\ WF_vars(EnterTerminal)

(***************************************************************************)
(* push and create_bill.                                                   *)
(***************************************************************************)
\* config["cospend"]["category_mapping"].get(category, 0)
category_mapping(category) ==
    IF category = Some("grocery") THEN 1
    ELSE IF category = Some("shopping") THEN 2
    ELSE 0

\* the json argument of requests.post: amount is the quotient amount / 100,
\* timestamp the midnight that starts the date; payed_for and payer are
\* configuration
Payload(p) ==
    [amount |-> [num |-> p.amount, den |-> 100],
     what |-> p.payee_friendly,
     category |-> category_mapping(p.category),
     comment |-> p.reference,
     paymentmodeid |-> 0,
     repeat |-> "n",
     timestamp |-> [date |-> p.date, hour |-> 0]]

\* how requests.post ends: a response with a 2xx status, a response with
\* another status, or an exception (no connection, timeout)
PostOutcomes == {"2xx", "non2xx", "network_error"}

\* decoded list of push, None before it is read
push_payments == from_json_list(push_json)

\* push up to the first call of requests.post
PushLoad ==
    /\ push_pc = "start"
    /\ push_pc' = IF IsNone(push_payments) THEN "crashed"
                  ELSE IF Len(push_json) = 0 THEN "done" ELSE "posting"
    /\ UNCHANGED <<input_vars, run_vars, pc, push_json, push_i, posted, results>>

\* create_bill for the next payment, with the way requests.post ends; an
\* exception of requests.post is caught nowhere
CreateBill(outcome) ==
    /\ push_pc = "posting"
    /\ posted' = Append(posted,
                        [payload |-> Payload(Get(push_payments)[push_i + 1]),
                         outcome |-> outcome])
    /\ IF outcome = "network_error"
       THEN /\ push_pc' = "crashed"
            /\ push_i' = push_i
       ELSE /\ push_i' = push_i + 1
            /\ push_pc' = IF push_i + 1 < Len(push_json) THEN "posting"
                          ELSE "done"
    /\ UNCHANGED <<input_vars, run_vars, pc, push_json, results>>

InitPush ==
    /\ rules = <<>>
    /\ source = "none"
    /\ csv = <<>>
    /\ loaded = <<>>
    /\ NoRun
    /\ pc = "idle"
    /\ push_json \in SeqsUpTo(SnapshotRecords, MaxPush)
    /\ push_pc = "start"
    /\ push_i = 0
    /\ posted = <<>>
    /\ results = <<>>

NextPush ==
    \/ PushLoad
    \/ \E outcome \in PostOutcomes : CreateBill(outcome)

SpecPush == InitPush /\ [][NextPush]_vars

(***************************************************************************)
(* The rule engine on its own: simplify_payment applied to a payment, and  *)
(* again to its result.                                                    *)
(***************************************************************************)
\* renames REWE
RuleAlias == Rule(Some(<<"E", "W", "E">>), None, Some(StrCafe), None)

RuleRef ==
    Rule(None, Some(<<"r", "e", "f">>), Some(<<"R", "e", "f">>), Some("misc"))

\* a result without name and category
RuleBare == Rule(Some(<<"e">>), None, None, None)

RuleSamples == {RuleRewe, RuleCaf, RuleAlias, RuleRef, RuleBare}

\* payments as ingested (payee_friendly = payee, no category) and as loaded
\* from a snapshot
RulePayments ==
    {Payment(PayA.date, payee, friendly, reference, PayA.amount, category) :
        payee \in {StrREWE, StrCafe},
        friendly \in {StrREWE, StrCafe, StrRewe},
        reference \in {<<"r", "e", "f">>, <<"c", "a", "f">>},
        category \in {None, Some("shopping")}}

MaxApplications == 2

ApplyRules ==
    /\ pc = "rules"
    /\ Len(results) <= MaxApplications
    /\ results' = Append(results,
                         simplify_payment(results[Len(results)], rules))
    /\ UNCHANGED <<input_vars, run_vars, pc, push_vars>>

InitRules ==
    /\ rules \in SeqsUpTo(RuleSamples, MaxRules)
    /\ source = "none"
    /\ csv = <<>>
    /\ loaded = <<>>
    /\ NoRun
    /\ pc = "rules"
    /\ PushIdle
    /\ results \in {<<r>> : r \in RulePayments}

NextRules == ApplyRules

SpecRules == InitRules /\ [][NextRules]_vars

(***************************************************************************)
(* The amount expression of csv_to_payment on its own.                     *)
(***************************************************************************)
\* longest amount string
MaxAmountLen == 5

AmountChars == {"-", ",", "0", "1", "9"}

\* the amount of the example row of the specification: -12,50
AmountExample == <<"-", "1", "2", ",", "5", "0">>

AmountStrings == SeqsUpTo(AmountChars, MaxAmountLen) \cup {AmountExample}

\* the amount expression evaluated on the cell results[1]
ParseCell ==
    /\ pc = "amount"
    /\ Len(results) = 1
    /\ results' = Append(results, ParseAmount(results[1]))
    /\ UNCHANGED <<input_vars, run_vars, pc, push_vars>>

InitAmount ==
    /\ rules = <<>>
    /\ source = "none"
    /\ csv = <<>>
    /\ loaded = <<>>
    /\ NoRun
    /\ pc = "amount"
    /\ PushIdle
    /\ results \in {<<s>> : s \in AmountStrings}

NextAmount == ParseCell

SpecAmount == InitAmount /\ [][NextAmount]_vars

(***************************************************************************)
(* persist and the loading of a snapshot on their own.                     *)
(***************************************************************************)
\* longest list persisted
MaxSnapshot == 2

SnapshotDates ==
    {[y |-> 2024, m |-> 3, d |-> 1], [y |-> 2024, m |-> 2, d |-> 29],
     [y |-> 1, m |-> 1, d |-> 1], [y |-> 9999, m |-> 12, d |-> 31]}

SnapshotPayments ==
    {Payment(date, StrREWE, friendly, <<"r", "e", "f">>, amount, category) :
        date \in SnapshotDates,
        friendly \in {StrREWE, StrRewe},
        amount \in {-350, 1250},
        category \in {None, Some("grocery")}}

\* json.dump of the list results[1] by persist, then json.load and
\* Payment.from_json over the file
PersistAndLoad ==
    /\ pc = "json"
    /\ Len(results) = 1
    /\ results' = Append(results, from_json_list(to_json_list(results[1])))
    /\ UNCHANGED <<input_vars, run_vars, pc, push_vars>>

InitJson ==
    /\ rules = <<>>
    /\ source = "none"
    /\ csv = <<>>
    /\ loaded = <<>>
    /\ NoRun
    /\ pc = "json"
    /\ PushIdle
    /\ results \in {<<ps>> : ps \in SeqsUpTo(SnapshotPayments, MaxSnapshot)}

NextJson == PersistAndLoad

SpecJson == InitJson /\ [][NextJson]_vars

(***************************************************************************)
(* Properties.                                                             *)
(***************************************************************************)
AllBuckets == approved \o second_look \o ignore

\* the entries of bucket b made from payments[pos]
InBucket(b, pos) == {i \in 1..Len(b) : b[i].pos = pos}

\* the place (1-indexed) at which the record made from payments[pos] stands
\* in items, which is the place at which it is presented
PlaceOf(pos) == CHOOSE k \in 1..Len(items) : items[k].pos = pos

\* the terminal commands entered so far are all cmd
OnlyCommand(cmd) == \A k \in 1..Len(decisions) : decisions[k].cmd = cmd

\* p and q agree on the four fields no command is meant to touch
SameSourceFields(p, q) ==
    /\ p.payee = q.payee
    /\ p.date = q.date
    /\ p.amount = q.amount
    /\ p.reference = q.reference

\* C1: when classify_payments has returned (every record decided, or q
\* entered), each of the N input positions stands in exactly one place of
\* exactly one of approved, second_look, ignore, so the three lengths add up
\* to N.
C1_BucketsPartitionInput ==
    pc = "done" =>
        /\ Len(approved) + Len(second_look) + Len(ignore) = Len(payments)
        /\ \A pos \in 1..Len(payments) :
               Cardinality(InBucket(AllBuckets, pos)) = 1

C1_Witness ==
    /\ pc = "done"
    /\ exit_loop
    /\ Len(payments) >= 2
    /\ approved # <<>>

\* C2 as stated: after q at place k, second_look is exactly the records of
\* places k..N in presentation order, and no record is in two buckets.
C2_SecondLookIsExactlyTheRest ==
    (pc = "done" /\ exit_loop) =>
        /\ second_look = SubSeq(items, Len(decisions), Len(items))
        /\ \A pos \in 1..Len(payments) :
               Cardinality(InBucket(AllBuckets, pos)) <= 1

\* the records shown when j was entered, in order
RECURSIVE SentByJ(_)
SentByJ(ds) ==
    IF ds = <<>> THEN <<>>
    ELSE IF Head(ds).cmd = "j" THEN <<Head(ds).shown>> \o SentByJ(Tail(ds))
    ELSE SentByJ(Tail(ds))

\* C2, amended: after q at place k, second_look is the records sent there
\* with j at places before k, followed by exactly the records of places k..N
\* in presentation order; no record is in two buckets.
C2_SecondLookEndsWithTheRest ==
    (pc = "done" /\ exit_loop) =>
        /\ second_look =
               SentByJ(decisions) \o SubSeq(items, Len(decisions), Len(items))
        /\ \A pos \in 1..Len(payments) :
               Cardinality(InBucket(AllBuckets, pos)) <= 1

C2_Witness ==
    /\ pc = "done"
    /\ exit_loop
    /\ Len(decisions) = 2
    /\ decisions[1].cmd = "j"
    /\ Len(second_look) = 2

\* C3: when a was the terminal command of every record, approved has length
\* N, approved[i] is made from input[N-1-i] (0-indexed; it is that record
\* after the rule engine, up to a category chosen with c), and second_look
\* and ignore are empty.
C3_ApproveAllReversesInput ==
    (pc = "done" /\ OnlyCommand("a")) =>
        /\ Len(approved) = Len(payments)
        /\ \A i \in 1..Len(approved) :
               LET in == payments[Len(payments) + 1 - i] IN
               /\ approved[i].pos = in.pos
               /\ [approved[i].p EXCEPT !.category = None] =
                      [simplify_payment(in.p, rules) EXCEPT !.category = None]
        /\ second_look = <<>>
        /\ ignore = <<>>

C3_Witness ==
    /\ pc = "done"
    /\ source = "csv"
    /\ OnlyCommand("a")
    /\ Len(payments) >= 2
    /\ payments[1].p # payments[2].p

\* the entries of b stand in the order in which the run presented them
InPresentationOrder(b) ==
    \A i, j \in 1..Len(b) : i < j => PlaceOf(b[i].pos) < PlaceOf(b[j].pos)

\* C4: a snapshot lists its records in the order in which the run that
\* wrote it presented them, and a run resumed with continue_with presents
\* the i-th record of the snapshot i-th; so the resumed run keeps the
\* relative order of the original run.
C4_ResumeKeepsOrder ==
    /\ pc = "done" =>
           /\ InPresentationOrder(approved)
           /\ InPresentationOrder(second_look)
           /\ InPresentationOrder(ignore)
           /\ written = Persisted(approved, second_look, ignore)
    /\ (source = "snapshot" /\ pc = "input") =>
           /\ payments_src[cur.pos] = idx + 1
           /\ SameSourceFields(to_json(cur.p), loaded[idx + 1])
           /\ \A k \in 1..Len(decisions) :
                  payments_src[decisions[k].shown.pos] = k

C4_Witness ==
    /\ source = "snapshot"
    /\ pc = "input"
    /\ idx = 1
    /\ loaded[1] # loaded[2]

\* C5: when two rules match a record and carry different names, and the
\* later of the two is the last rule that matches, simplify_payment returns
\* payee_friendly equal to the name of the later rule.
C5_LastMatchWins ==
    Len(results) >= 2 =>
        \A i, j \in 1..Len(rules) :
            (/\ i < j
             /\ RuleMatches(rules[i], results[1])
             /\ RuleMatches(rules[j], results[1])
             /\ ~IsNone(rules[i].result.name)
             /\ ~IsNone(rules[j].result.name)
             /\ rules[i].result.name # rules[j].result.name
             /\ \A k \in (j + 1)..Len(rules) :
                    ~RuleMatches(rules[k], results[1]))
            => results[2].payee_friendly = Get(rules[j].result.name)

C5_Witness ==
    /\ Len(results) >= 2
    /\ Len(rules) = 2
    /\ RuleMatches(rules[1], results[1])
    /\ RuleMatches(rules[2], results[1])
    /\ ~IsNone(rules[1].result.name)
    /\ ~IsNone(rules[2].result.name)
    /\ rules[1].result.name # rules[2].result.name
    /\ results[2].payee_friendly = Get(rules[2].result.name)

\* C6: simplify_payment applied to its own result returns that result,
\* equal in every field (a rule of the configuration can set a field, it
\* cannot clear one).
C6_SimplifyIdempotent ==
    Len(results) >= 3 => results[3] = results[2]

C6_Witness ==
    /\ Len(results) >= 3
    /\ results[2].payee_friendly # results[1].payee_friendly
    /\ results[2].category # results[1].category

\* C7 as stated: every record in a bucket has the payee (and the date,
\* amount and reference) of the input record at its position, whatever the
\* commands, e included.
C7_PayeeNeverChanges ==
    \A i \in 1..Len(AllBuckets) :
        SameSourceFields(AllBuckets[i].p, payments[AllBuckets[i].pos].p)

\* the decision taken for the record made from payments[pos] was e, and the
\* editor rewrote payee
PayeeEdited(pos) ==
    \E k \in 1..Len(decisions) :
        /\ decisions[k].shown.pos = pos
        /\ decisions[k].cmd = "e"
        /\ decisions[k].edit = "payee"

\* C7, amended: rule application and the commands a, c, j, x, q never change
\* payee, date, amount or reference, and neither does e unless the operator
\* rewrites them in the editor: every record in a bucket has the payee,
\* date, amount and reference of the input record at its position, except a
\* record approved through e, which has the payee the editor left in the
\* file.
C7_PayeeChangesOnlyInEditor ==
    \A i \in 1..Len(AllBuckets) :
        LET e  == AllBuckets[i]
            in == payments[e.pos].p
        IN  IF PayeeEdited(e.pos)
            THEN /\ e.p.payee = StrRewe
                 /\ SameSourceFields([e.p EXCEPT !.payee = in.payee], in)
            ELSE SameSourceFields(e.p, in)

C7_Witness ==
    /\ pc = "done"
    /\ \E k \in 1..Len(decisions) :
           /\ decisions[k].cmd = "e"
           /\ decisions[k].edit = "category"
    /\ \E i \in 1..Len(AllBuckets) :
           /\ AllBuckets[i].p.payee_friendly # AllBuckets[i].p.payee
           /\ AllBuckets[i].p.category = Some("shopping")

\* C8: when e is entered for a record without category and the editor only
\* sets category, the record appended to approved has the new category and
\* the payee, date, amount and reference shown before the edit, and nothing
\* is appended to second_look or ignore.
C8_CategoryEditKeepsTheRest ==
    \A k \in 1..Len(decisions) :
        LET d == decisions[k] IN
        (d.cmd = "e" /\ d.edit = "category" /\ IsNone(d.shown.p.category)) =>
            /\ Cardinality(InBucket(approved, d.shown.pos)) = 1
            /\ \A i \in InBucket(approved, d.shown.pos) :
                   /\ approved[i].p.category = Some("grocery")
                   /\ SameSourceFields(approved[i].p, d.shown.p)
            /\ InBucket(second_look, d.shown.pos) = {}
            /\ InBucket(ignore, d.shown.pos) = {}

C8_Witness ==
    /\ pc = "done"
    /\ \E k \in 1..Len(decisions) :
           /\ decisions[k].cmd = "e"
           /\ decisions[k].edit = "category"
           /\ decisions[k].status = "ok"
           /\ IsNone(decisions[k].shown.p.category)

\* C9 as stated: when e is entered and the editor is missing or exits with a
\* nonzero status, leaving the file as written, the record is not appended
\* to approved.
C9_FailedEditorNotApproved ==
    \A k \in 1..Len(decisions) :
        (decisions[k].cmd = "e" /\ decisions[k].status = "failed") =>
            InBucket(approved, decisions[k].shown.pos) = {}

\* C10 as stated: when push has ended, a submission was attempted for every
\* record of the snapshot, whatever the outcomes of the earlier submissions.
C10_PushAttemptsEveryRecord ==
    (push_pc \in {"done", "crashed"} /\ ~IsNone(push_payments)) =>
        Len(posted) = Len(push_json)

\* an amount as the CSV writes it: optional sign, digits, and optionally a
\* comma followed by digits
ValidAmount(s) ==
    LET signed == s # <<>> /\ s[1] \in {"+", "-"}
        body   == IF signed THEN SubSeq(s, 2, Len(s)) ELSE s
        commas == SepAt(body, ",")
    IN  /\ Cardinality(commas) <= 1
        /\ \A i \in 1..Len(body) : body[i] \in Digits \cup {","}
        /\ body # <<>>
        /\ body[1] # ","
        /\ body[Len(body)] # ","

\* the exact value of a valid amount string, as a signed numerator over a
\* power of ten: d = num / 10^scale
ExactValue(s) ==
    LET neg    == s[1] = "-"
        body   == IF s[1] \in {"+", "-"} THEN SubSeq(s, 2, Len(s)) ELSE s
        digits == SelectSeq(body, LAMBDA c : c # ",")
        commas == SepAt(body, ",")
        scale  == IF commas = {} THEN 0
                  ELSE Len(body) - (CHOOSE i \in commas : TRUE)
    IN  [num |-> IF neg THEN 0 - NatVal(digits) ELSE NatVal(digits),
         scale |-> scale]

Abs(n) == IF n < 0 THEN 0 - n ELSE n

\* round(num / den) for den > 0, ties to the even neighbour as Python's
\* round does
RoundHalfEven(num, den) ==
    LET q   == Abs(num) \div den
        r   == Abs(num) % den
        up  == 2 * r > den \/ (2 * r = den /\ q % 2 = 1)
        mag == IF up THEN q + 1 ELSE q
    IN  IF num < 0 THEN 0 - mag ELSE mag

\* C11 as stated: for every valid amount string the ingested amount is
\* -round(d * 100), d the exact decimal value of the string.
C11_AmountIsRounded ==
    (pc = "amount" /\ Len(results) = 2 /\ ValidAmount(results[1])) =>
        LET d == ExactValue(results[1]) IN
        results[2] = Some(0 - RoundHalfEven(d.num * 100, Pow10(d.scale)))

\* C11, amended: for every valid amount string with at most two fractional
\* digits the ingested amount is exactly -(d * 100), which is
\* -round(d * 100); with more fractional digits it is -(d * 100) with the
\* fraction of a cent cut off (truncated toward zero), not rounded. "-12,50"
\* gives 1250.
C11_AmountIsTruncated ==
    (pc = "amount" /\ Len(results) = 2 /\ ValidAmount(results[1])) =>
        LET d == ExactValue(results[1])
            a == Get(results[2])
        IN  /\ ~IsNone(results[2])
            /\ d.scale <= 2 => a * Pow10(d.scale) = 0 - d.num * 100
            /\ d.scale <= 2 =>
                   a = 0 - RoundHalfEven(d.num * 100, Pow10(d.scale))
            /\ Abs(a) * Pow10(d.scale) <= Abs(d.num) * 100
            /\ Abs(d.num) * 100 < (Abs(a) + 1) * Pow10(d.scale)
            /\ d.num > 0 => a <= 0
            /\ d.num < 0 => a >= 0
            /\ results[1] = AmountExample => a = 1250

C11_Witness ==
    /\ pc = "amount"
    /\ Len(results) = 2
    /\ ValidAmount(results[1])
    /\ ExactValue(results[1]).scale = 3
    /\ results[2] = Some(-10)

\* C12: for a non-empty list of records, with category absent or present,
\* decoding the persisted encoding gives back a list of the same length with
\* every record equal in every field, in the same order.
C12_SnapshotRoundTrip ==
    (pc = "json" /\ Len(results) = 2 /\ results[1] # <<>>) =>
        results[2] = Some(results[1])

C12_Witness ==
    /\ pc = "json"
    /\ Len(results) = 2
    /\ Len(results[1]) = 2
    /\ IsNone(results[1][1].category)
    /\ ~IsNone(results[1][2].category)
    /\ results[1][1].date # results[1][2].date
    /\ results[2] = Some(results[1])

\* the record before rule k of the list is applied to results[1]
BeforeRule(k) == FoldRules(results[1], SubSeq(rules, 1, k - 1))

\* C13: a matching rule whose result has no name leaves payee_friendly as it
\* was before that rule (a value of an earlier rule or of a snapshot
\* included), and one whose result has no category leaves category as it
\* was.
C13_MissingNameKeepsFriendly ==
    Len(results) >= 2 =>
        \A k \in 1..Len(rules) :
            LET before == BeforeRule(k)
                after  == ApplyRule(before, rules[k])
            IN  RuleMatches(rules[k], before) =>
                    /\ IsNone(rules[k].result.name) =>
                           after.payee_friendly = before.payee_friendly
                    /\ IsNone(rules[k].result.category) =>
                           after.category = before.category

\* C14: two records that differ only in reference get the same
\* payee_friendly and the same category from simplify_payment, for any rule
\* list; a rule with only reference_contains replaces the fields exactly
\* when its pattern, in lowercase, is a substring of the lowercase payee.
C14_MatchingDependsOnPayeeOnly ==
    Len(results) >= 2 =>
        /\ \A other \in RulePayments :
               other = [results[1] EXCEPT !.reference = other.reference] =>
                   LET r == simplify_payment(other, rules) IN
                   /\ r.payee_friendly = results[2].payee_friendly
                   /\ r.category = results[2].category
        /\ \A k \in 1..Len(rules) :
               (/\ ~IsNone(rules[k].reference_contains)
                /\ IsNone(rules[k].payee_contains)) =>
                   LET before == BeforeRule(k)
                       inPayee ==
                           Contains(Lower(Get(rules[k].reference_contains)),
                                    Lower(before.payee))
                   IN  ApplyRule(before, rules[k]) =
                           IF inPayee THEN Replaced(before, rules[k])
                           ELSE before

C14_Witness ==
    /\ Len(results) >= 2
    /\ rules = <<RuleCaf, RuleRef>>
    /\ results[1].payee = StrCafe
    /\ results[1].reference = <<"r", "e", "f">>
    /\ IsNone(results[1].category)
    /\ results[2].category = Some("food")

\* C15: an input of c (with the key of the category menu) or of anything
\* that is no command changes no bucket and writes no file; the record that
\* was current stays current and the next input is read for it.
C15_NonTerminalKeepsPlace ==
    [][(pc = "input" /\ entered' \in {"c", "z"}) =>
           /\ approved' = approved
           /\ second_look' = second_look
           /\ ignore' = ignore
           /\ written' = written
           /\ decisions' = decisions
           /\ idx' = idx
           /\ pc' = "input"
           /\ payment' # None
           /\ Get(payment').pos = cur.pos]_vars

C15_Witness ==
    /\ pc = "input"
    /\ entered = "c"
    /\ idx = 1
    /\ Len(approved) = 1
    /\ cur.p.category = Some("shopping")

\* C16: in the category menu a key other than g and s, x included, leaves
\* the category of the current record as it was before c.
C16_OtherKeyKeepsCategory ==
    [][\A key \in CategoryKeys \ {"g", "s"} :
           EnterC(key) => Get(payment').p.category = cur.p.category]_vars

\* C17: a terminal command a, j, x or q right after c with g or s leaves an
\* entry for the current record, carrying the chosen category, in a bucket,
\* whether or not a rule matched the record.
C17_ChosenCategoryTravels ==
    [][(/\ pc = "input"
        /\ entered = "c"
        /\ cur.p.category \in {Some("grocery"), Some("shopping")}
        /\ entered' \in {"a", "j", "x", "q"}) =>
           LET after == approved' \o second_look' \o ignore' IN
           \E i \in 1..Len(after) :
               /\ after[i].pos = cur.pos
               /\ after[i].p.category = cur.p.category]_vars

\* row cannot be ingested: its date or its amount is malformed
Malformed(row) == IsNone(ParseDMY(row.date)) \/ IsNone(ParseAmount(row.amount))

\* C18: when a row of the CSV has a malformed date or amount, classify
\* presents no record, reads no command and writes no file, whatever the
\* other rows are.
C18_BadRowStopsEverything ==
    (source = "csv" /\ \E i \in 1..Len(csv) : Malformed(csv[i])) =>
        /\ pc \in {"start", "crashed"}
        /\ payment = None
        /\ entered = ""
        /\ decisions = <<>>
        /\ AllBuckets = <<>>
        /\ written = NoFiles

C18_Witness ==
    /\ pc = "crashed"
    /\ source = "csv"
    /\ Len(csv) = 2
    /\ ~Malformed(csv[1])
    /\ Malformed(csv[2])

\* C19: a record stored in a snapshot with a category, resumed with
\* continue_with and approved with a before any c or e for it, stands in
\* approved with the category and the payee_friendly stored in the snapshot.
C19_ResumeKeepsDecision ==
    [][(/\ source = "snapshot"
        /\ pc = "input"
        /\ entered \in {"", "a", "e", "j", "x"}
        /\ entered' = "a"
        /\ ~IsNone(loaded[idx + 1].category)) =>
           LET stored == loaded[idx + 1]
               now    == approved'[Len(approved')].p
           IN  /\ now.category = stored.category
               /\ now.payee_friendly = stored.payee_friendly]_vars

\* the records presented so far, in the order of presentation, are the
\* first records of items, each once
PresentedInOrder ==
    /\ \A k \in 1..Len(decisions) : PlaceOf(decisions[k].shown.pos) = k
    /\ pc = "input" =>
           /\ PlaceOf(cur.pos) = Len(decisions) + 1
           /\ ~exit_loop
           /\ \A k \in 1..Len(decisions) : decisions[k].cmd # "q"

\* C20: when the operator comes to a terminal command (a, e, j, x or q) for
\* every record presented, classify_payments returns; every position is
\* presented at most once, in increasing order of items, and none after q.
C20_TriageTerminates ==
    /\ []PresentedInOrder
    /\ (pc = "input") ~> (pc = "done")

====
